---- MODULE Spec2Model ----
(***************************************************************************)
(* A model of the Bucket layer of s3gof3r (flood-io fork): endpoint region *)
(* inference (S3.Region), URL construction (Bucket.url), single and batch  *)
(* deletion (Bucket.Delete, Bucket.DeleteMultiple), request signing order  *)
(* (Bucket.Sign before Bucket.Do) and the sharing of Config objects        *)
(* between Buckets.                                                        *)
(*                                                                         *)
(* Go strings are modelled as sequences of one-character strings, so that  *)
(* fmt.Sprintf, strings.Split, path.Clean, url.Parse and the regionMatcher *)
(* regular expression are computed character by character.                 *)
(***************************************************************************)
EXTENDS Integers, Sequences, FiniteSets, TLC

VARIABLES env, heap, buckets, call, sent, store, ret

vars == <<env, heap, buckets, call, sent, store, ret>>

(***************************************************************************)
(* Strings                                                                 *)
(***************************************************************************)
LowerAlpha ==
  {"a","b","c","d","e","f","g","h","i","j","k","l","m",
   "n","o","p","q","r","s","t","u","v","w","x","y","z"}

UpperAlpha ==
  {"A","B","C","D","E","F","G","H","I","J","K","L","M",
   "N","O","P","Q","R","S","T","U","V","W","X","Y","Z"}

Digits == {"0","1","2","3","4","5","6","7","8","9"}

HexDigits == Digits \cup {"a","b","c","d","e","f","A","B","C","D","E","F"}

\* s[from..] (1-based), the empty string when from is past the end
Drop(s, from) == IF from > Len(s) THEN <<>> ELSE SubSeq(s, from, Len(s))

\* s[1..n]
Take(s, n) == IF n <= 0 THEN <<>> ELSE SubSeq(s, 1, IF n > Len(s) THEN Len(s) ELSE n)

\* strings.HasPrefix applied to s[i..]
HasPrefixAt(s, i, p) ==
  /\ i + Len(p) - 1 <= Len(s)
  /\ \A j \in 1..Len(p) : s[i + j - 1] = p[j]

\* strings.Index for a one-character separator: 0 when absent
IndexOf(s, c) ==
  IF \E i \in 1..Len(s) : s[i] = c
  THEN CHOOSE i \in 1..Len(s) : s[i] = c /\ \A j \in 1..(i - 1) : s[j] # c
  ELSE 0

\* strings.Contains for a one-character substring
Contains(s, c) == IndexOf(s, c) # 0

RECURSIVE Split(_, _)
\* strings.Split(s, c) for a one-character separator
Split(s, c) ==
  LET i == IndexOf(s, c)
  IN  IF i = 0 THEN <<s>> ELSE <<Take(s, i - 1)>> \o Split(Drop(s, i + 1), c)

RECURSIVE Join(_, _)
\* strings.Join(segs, sep)
Join(segs, sep) ==
  IF Len(segs) = 0 THEN <<>>
  ELSE IF Len(segs) = 1 THEN segs[1]
  ELSE segs[1] \o sep \o Join(Tail(segs), sep)


(***************************************************************************)
(* String constants of the sources                                         *)
(***************************************************************************)
\* the outcome of a Go panic, distinct from every string
Panic == <<"panic: can't find endpoint region">>

Empty == <<>>

versionParam == <<"v","e","r","s","i","o","n","I","d">>

DefaultDomain == <<"s","3",".","a","m","a","z","o","n","a","w","s",".","c","o","m">>

ExternalDomain == <<"s","3","-","e","x","t","e","r","n","a","l","-","1",".","a","m","a","z","o","n","a","w","s",".","c","o","m">>

AccelerateDomain == <<"s","3","-","a","c","c","e","l","e","r","a","t","e",".","a","m","a","z","o","n","a","w","s",".","c","o","m">>

UsEast1 == <<"u","s","-","e","a","s","t","-","1">>

defaultRegion == <<"u","s","-","w","e","s","t","-","2">>

W_s3 == <<"s","3">>

W_amazonaws == <<"a","m","a","z","o","n","a","w","s">>

W_com == <<"c","o","m">>

\* -------------------------------------------------------------------------
\* regionMatcher:  s3[-.]([a-z0-9-]+).amazonaws.com([.a-z0-9]*)
\* Unanchored; the dots outside the brackets match any character.
\* -------------------------------------------------------------------------
\* [a-z0-9-]
RegionClass(c) == c \in LowerAlpha \cup Digits \cup {"-"}

\* [.a-z0-9]
SuffixClass(c) == c \in LowerAlpha \cup Digits \cup {"."}

\* . (any character but a newline)
AnyChar(c) == c # "\n"

\* .amazonaws.com matched at position i
TailMatchAt(s, i) ==
  /\ i + 13 <= Len(s)
  /\ AnyChar(s[i])
  /\ HasPrefixAt(s, i + 1, W_amazonaws)
  /\ AnyChar(s[i + 10])
  /\ HasPrefixAt(s, i + 11, W_com)

\* the lengths the first group can take when the match starts at i
GroupLens(s, i) ==
  IF /\ HasPrefixAt(s, i, W_s3)
     /\ i + 2 <= Len(s)
     /\ s[i + 2] \in {"-", "."}
  THEN {k \in 1..Len(s) :
          /\ \A j \in (i + 3)..(i + 2 + k) : j <= Len(s) /\ RegionClass(s[j])
          /\ TailMatchAt(s, i + 3 + k)}
  ELSE {}

\* the greedy choice among them
MaxOf(S) == CHOOSE k \in S : \A m \in S : m <= k

\* the length of the longest run of [.a-z0-9] starting at i
SuffixLen(s, i) ==
  MaxOf({k \in 0..Len(s) : \A j \in i..(i + k - 1) : j <= Len(s) /\ SuffixClass(s[j])})

\* regexp.FindStringSubmatch: <<>> without a match, else
\* <<whole match, group 1, group 2>> of the leftmost match
FindStringSubmatch(s) ==
  LET starts == {i \in 1..Len(s) : GroupLens(s, i) # {}}
  IN  IF starts = {} THEN <<>>
      ELSE LET i == CHOOSE a \in starts : \A b \in starts : a <= b
               k == MaxOf(GroupLens(s, i))
               e == i + 3 + k + 14
               n == SuffixLen(s, e)
           IN  << SubSeq(s, i, e + n - 1),
                  SubSeq(s, i + 3, i + 2 + k),
                  SubSeq(s, e, e + n - 1) >>

(***************************************************************************)
(* Endpoints: S3 and S3Accelerated, the two S3ConfigSource variants        *)
(***************************************************************************)
\* New(domain, keys)
New(domain) ==
  [kind |-> "S3", domain |-> IF domain = Empty THEN DefaultDomain ELSE domain]

\* NewAcceleratedS3(k)
NewAcceleratedS3 == [kind |-> "S3Accelerated", region |-> defaultRegion]

\* NewAcceleratedS3InRegion(k, region)
NewAcceleratedS3InRegion(region) == [kind |-> "S3Accelerated", region |-> region]

\* (s *S3) Domain / (a *S3Accelerated) Domain
Domain(s) == IF s.kind = "S3" THEN s.domain ELSE AccelerateDomain

\* DomainForBucket: fmt.Sprintf("%s.%s", bucket, Domain())
DomainForBucket(s, bucket) == bucket \o <<".">> \o Domain(s)

\* S3Region returning the empty override instead of panicking
S3Region_NoPanic(s, getenv) ==
  LET d == Domain(s)
  IN  IF d \in {DefaultDomain, ExternalDomain} THEN UsEast1
      ELSE IF d = AccelerateDomain THEN getenv
      ELSE IF Len(FindStringSubmatch(d)) < 2 THEN getenv
      ELSE FindStringSubmatch(d)[2]

\* S3Region letting a set override win over the domain
S3Region_EnvFirst(s, getenv) ==
  LET d == Domain(s)
  IN  IF getenv # Empty THEN getenv
      ELSE IF d \in {DefaultDomain, ExternalDomain} THEN UsEast1
      ELSE IF d = AccelerateDomain \/ Len(FindStringSubmatch(d)) < 2 THEN Panic
      ELSE FindStringSubmatch(d)[2]

\* (s *S3) Region, with getenv the value of os.Getenv("AWS_REGION")
S3Region(s, getenv) ==
  LET region == getenv
      d == Domain(s)
  IN  IF d \in {DefaultDomain, ExternalDomain} THEN UsEast1
      ELSE IF d = AccelerateDomain
      THEN IF region = Empty THEN Panic ELSE region
      ELSE LET regions == FindStringSubmatch(d)
           IN  IF Len(regions) < 2
               THEN IF region = Empty THEN Panic ELSE region
               ELSE regions[2]

\* Region() of either variant
Region(s, getenv) == IF s.kind = "S3" THEN S3Region(s, getenv) ELSE s.region


(***************************************************************************)
(* path.Clean                                                              *)
(***************************************************************************)
RECURSIVE CleanFold(_, _, _)
\* the elements path.Clean keeps, scanning the "/"-separated elements in order
CleanFold(segs, out, rooted) ==
  IF Len(segs) = 0 THEN out
  ELSE LET e == Head(segs)
           rest == Tail(segs)
       IN  IF e = Empty \/ e = <<".">> THEN CleanFold(rest, out, rooted)
           ELSE IF e = <<".", ".">>
           THEN IF Len(out) > 0 /\ out[Len(out)] # <<".", ".">>
                THEN CleanFold(rest, SubSeq(out, 1, Len(out) - 1), rooted)
                ELSE IF rooted THEN CleanFold(rest, out, rooted)
                ELSE CleanFold(rest, Append(out, e), rooted)
           ELSE CleanFold(rest, Append(out, e), rooted)

\* path.Clean(p)
Clean(p) ==
  IF p = Empty THEN <<".">>
  ELSE LET rooted == p[1] = "/"
           out == CleanFold(Split(p, "/"), <<>>, rooted)
       IN  IF rooted THEN <<"/">> \o Join(out, <<"/">>)
           ELSE IF Len(out) = 0 THEN <<".">>
           ELSE Join(out, <<"/">>)

(***************************************************************************)
(* net/url: Parse, Query().Get, Values.Encode                              *)
(***************************************************************************)
\* the byte a %XX escape stands for, for the escapes of the modelled alphabet
Unhex(a, b) ==
  CASE <<a, b>> = <<"2", "0">> -> " "
    [] <<a, b>> = <<"2", "3">> -> "#"
    [] <<a, b>> = <<"2", "5">> -> "%"
    [] <<a, b>> = <<"2", "6">> -> "&"
    [] <<a, b>> \in {<<"2", "B">>, <<"2", "b">>} -> "+"
    [] <<a, b>> \in {<<"2", "F">>, <<"2", "f">>} -> "/"
    [] <<a, b>> \in {<<"3", "A">>, <<"3", "a">>} -> ":"
    [] <<a, b>> \in {<<"3", "D">>, <<"3", "d">>} -> "="
    [] <<a, b>> \in {<<"3", "F">>, <<"3", "f">>} -> "?"
    [] OTHER -> "\\x"

\* the escape url.QueryEscape writes for a character
Hex(c) ==
  CASE c = "#" -> <<"%", "2", "3">>
    [] c = "%" -> <<"%", "2", "5">>
    [] c = "&" -> <<"%", "2", "6">>
    [] c = "+" -> <<"%", "2", "B">>
    [] c = "/" -> <<"%", "2", "F">>
    [] c = ":" -> <<"%", "3", "A">>
    [] c = "=" -> <<"%", "3", "D">>
    [] c = "?" -> <<"%", "3", "F">>
    [] OTHER -> <<"%", "X", "X">>

\* every % of s is followed by two hexadecimal digits
EscapesValid(s) ==
  \A i \in 1..Len(s) :
    s[i] = "%" => /\ i + 2 <= Len(s)
                  /\ s[i + 1] \in HexDigits
                  /\ s[i + 2] \in HexDigits

RECURSIVE QueryUnescape(_)
\* url.QueryUnescape of a string whose escapes are valid
QueryUnescape(s) ==
  IF Len(s) = 0 THEN <<>>
  ELSE IF s[1] = "%" THEN <<Unhex(s[2], s[3])>> \o QueryUnescape(Drop(s, 4))
  ELSE IF s[1] = "+" THEN <<" ">> \o QueryUnescape(Tail(s))
  ELSE <<s[1]>> \o QueryUnescape(Tail(s))

RECURSIVE QueryEscape(_)
\* url.QueryEscape
QueryEscape(s) ==
  IF Len(s) = 0 THEN <<>>
  ELSE (IF s[1] \in LowerAlpha \cup UpperAlpha \cup Digits \cup {"-", "_", ".", "~"}
        THEN <<s[1]>>
        ELSE IF s[1] = " " THEN <<"+">>
        ELSE Hex(s[1])) \o QueryEscape(Tail(s))

RECURSIVE SchemeScan(_, _)
\* url.getScheme: [err, scheme, rest]
SchemeScan(raw, i) ==
  IF i > Len(raw) THEN [err |-> FALSE, scheme |-> Empty, rest |-> raw]
  ELSE IF raw[i] \in LowerAlpha \cup UpperAlpha THEN SchemeScan(raw, i + 1)
  ELSE IF raw[i] \in Digits \cup {"+", "-", "."}
  THEN IF i = 1 THEN [err |-> FALSE, scheme |-> Empty, rest |-> raw]
       ELSE SchemeScan(raw, i + 1)
  ELSE IF raw[i] = ":"
  THEN IF i = 1 THEN [err |-> TRUE, scheme |-> Empty, rest |-> Empty]
       ELSE [err |-> FALSE, scheme |-> Take(raw, i - 1), rest |-> Drop(raw, i + 1)]
  ELSE [err |-> FALSE, scheme |-> Empty, rest |-> raw]

\* url.Parse(rawurl): [err, RawQuery]; the fields Bucket.url reads.
\* Errors modelled: a missing scheme before ":", a colon in the first path
\* segment of a relative reference, an invalid % escape in the path.
Parse(rawurl) ==
  LET h == IndexOf(rawurl, "#")
      u == IF h = 0 THEN rawurl ELSE Take(rawurl, h - 1)
      sc == SchemeScan(u, 1)
      q == IndexOf(sc.rest, "?")
      rest == IF q = 0 THEN sc.rest ELSE Take(sc.rest, q - 1)
      rawq == IF q = 0 THEN Empty ELSE Drop(sc.rest, q + 1)
      opaque == sc.scheme # Empty /\ ~HasPrefixAt(rest, 1, <<"/">>)
      seg == Split(rest, "/")[1]
  IN  IF sc.err THEN [err |-> TRUE, RawQuery |-> Empty]
      ELSE IF opaque THEN [err |-> FALSE, RawQuery |-> rawq]
      ELSE IF ~HasPrefixAt(rest, 1, <<"/">>) /\ Contains(seg, ":")
      THEN [err |-> TRUE, RawQuery |-> Empty]
      ELSE IF ~EscapesValid(rest) THEN [err |-> TRUE, RawQuery |-> Empty]
      ELSE [err |-> FALSE, RawQuery |-> rawq]

RECURSIVE QueryGet(_, _)
\* url.ParseQuery(...).Get(key) over the "&"-separated pairs: the first value
\* of key, "" when absent; pairs that do not unescape are skipped
QueryGet(pairs, key) ==
  IF Len(pairs) = 0 THEN Empty
  ELSE LET kv == Head(pairs)
           eq == IndexOf(kv, "=")
           k == IF eq = 0 THEN kv ELSE Take(kv, eq - 1)
           v == IF eq = 0 THEN Empty ELSE Drop(kv, eq + 1)
       IN  IF /\ kv # Empty
              /\ ~Contains(kv, ";")
              /\ EscapesValid(k)
              /\ EscapesValid(v)
              /\ QueryUnescape(k) = key
           THEN QueryUnescape(v)
           ELSE QueryGet(Tail(pairs), key)

\* purl.Query().Get(versionParam)
VersionOf(purl) == QueryGet(Split(purl.RawQuery, "&"), versionParam)

\* vals.Encode() for the url.Values holding at most versionParam
Encode(v) == IF v = Empty THEN Empty ELSE versionParam \o <<"=">> \o QueryEscape(v)

(***************************************************************************)
(* Bucket.url                                                              *)
(***************************************************************************)
\* Bucket.url ignoring Config.PathStyle
url_IgnorePathStyle(b, cfg, bPath) ==
  LET purl == Parse(bPath)
      v == VersionOf(purl)
      p == IF v # Empty THEN Split(bPath, "?")[1] ELSE bPath
  IN  IF purl.err THEN [err |-> TRUE]
      ELSE IF Contains(b.Name, ".")
      THEN [err |-> FALSE,
            Host |-> Domain(b.S3),
            Scheme |-> cfg.Scheme,
            Path |-> Clean(<<"/">> \o b.Name \o <<"/">> \o p),
            RawQuery |-> Encode(v)]
      ELSE [err |-> FALSE,
            Scheme |-> cfg.Scheme,
            Path |-> Clean(<<"/">> \o p),
            Host |-> Clean(DomainForBucket(b.S3, b.Name)),
            RawQuery |-> Encode(v)]

\* (b *Bucket) url(bPath), cfg being *b.Config
url(b, cfg, bPath) ==
  LET purl == Parse(bPath)
      v == VersionOf(purl)
      p == IF v # Empty THEN Split(bPath, "?")[1] ELSE bPath
  IN  IF purl.err THEN [err |-> TRUE]
      ELSE IF Contains(b.Name, ".") \/ cfg.PathStyle
      THEN [err |-> FALSE,
            Host |-> Domain(b.S3),
            Scheme |-> cfg.Scheme,
            Path |-> Clean(<<"/">> \o b.Name \o <<"/">> \o p),
            RawQuery |-> Encode(v)]
      ELSE [err |-> FALSE,
            Scheme |-> cfg.Scheme,
            Path |-> Clean(<<"/">> \o p),
            Host |-> Clean(DomainForBucket(b.S3, b.Name)),
            RawQuery |-> Encode(v)]


(***************************************************************************)
(* Config, DefaultConfig and the Bucket constructors                       *)
(***************************************************************************)
https == <<"h","t","t","p","s">>

\* the value DefaultConfig points to at package initialisation (mb is 1 MiB);
\* Client is not modelled
DefaultConfigValue ==
  [Concurrency |-> 10,
   PartSize |-> 20 * 1048576,
   NTry |-> 10,
   Md5Check |-> TRUE,
   Scheme |-> https,
   PathStyle |-> FALSE]

\* var DefaultConfig = &Config{...}: the first object of the heap of Configs
DefaultConfig == 1

\* NewBucket(s3, name, config), config a pointer into the heap
NewBucket(s3, name, config) == [S3 |-> s3, Name |-> name, Config |-> config]

\* (s *S3) Bucket(name)
S3Bucket(s, name) == NewBucket(s, name, DefaultConfig)

\* the Config literal of (a *S3Accelerated) BucketWithDefaultConfig
AcceleratedConfigValue ==
  [Concurrency |-> 10,
   PartSize |-> 20 * 1048576,
   NTry |-> 10,
   Md5Check |-> TRUE,
   Scheme |-> https,
   PathStyle |-> FALSE]

\* (a *S3Accelerated) BucketWithDefaultConfig(name): <<heap, bucket>> after
\* the fresh Config is allocated
BucketWithDefaultConfig(a, name, h) ==
  <<Append(h, AcceleratedConfigValue), NewBucket(a, name, Len(h) + 1)>>

(***************************************************************************)
(* Requests, signing, responses                                            *)
(***************************************************************************)
UserAgent == <<"S","3","G","o","f","3","r">>

\* a nil http.Header: no User-Agent, no Authorization
NilHeader == [UserAgent |-> Empty, Authorization |-> <<>>]

\* signer.sign(): the credential scope of the Authorization header names
\* S3Config.Region(); a panic of Region() propagates. [panic, req]
sign(req, S3Config, getenv) ==
  LET r == Region(S3Config, getenv)
  IN  IF r = Panic THEN [panic |-> TRUE, req |-> req]
      ELSE [panic |-> FALSE, req |-> [req EXCEPT !.Header.Authorization = <<r>>]]

\* (b *Bucket) Sign(req)
Sign(b, req, getenv) ==
  sign([req EXCEPT !.Header.UserAgent = UserAgent], b.S3, getenv)

\* the request carries a signature
Signed(req) == req.Header.Authorization # <<>>

StatusNoContent == 204

\* deleteResult accepting every 2xx status
deleteResult_Any2xx(resp) ==
  IF resp.neterr THEN [kind |-> "err", err |-> "transport", code |-> 0]
  ELSE IF resp.StatusCode < 200 \/ resp.StatusCode >= 300
  THEN [kind |-> "err", err |-> "resp", code |-> resp.StatusCode]
  ELSE [kind |-> "nil", err |-> "", code |-> 0]

\* deleteResult expecting 200 OK
deleteResult_Expect200(resp) ==
  IF resp.neterr THEN [kind |-> "err", err |-> "transport", code |-> 0]
  ELSE IF resp.StatusCode # 200
  THEN [kind |-> "err", err |-> "resp", code |-> resp.StatusCode]
  ELSE [kind |-> "nil", err |-> "", code |-> 0]

\* the rest of delete once b.Do has answered: nil, or the error returned
deleteResult(resp) ==
  IF resp.neterr THEN [kind |-> "err", err |-> "transport", code |-> 0]
  ELSE IF resp.StatusCode # StatusNoContent
  THEN [kind |-> "err", err |-> "resp", code |-> resp.StatusCode]
  ELSE [kind |-> "nil", err |-> "", code |-> 0]

\* Bucket.delete dispatching before it signs
deleteBody_DoFirst == <<"url", "Do", "Sign">>

\* the statements of Bucket.delete in the order they run
deleteBody == <<"url", "Sign", "Do">>

\* fmt.Sprintf("/.md5/%s.md5", path) of Bucket.Delete
DeleteMd5Path(path) == <<"/",".","m","d","5","/">> \o path \o <<".","m","d","5">>

\* fmt.Sprintf("/.md5/%s.md", key) of Bucket.DeleteMultiple
MultiMd5Key(key) == <<"/",".","m","d","5","/">> \o key \o <<".","m","d">>

RECURSIVE MapMd5(_)
\* the md5Keys loop of DeleteMultiple
MapMd5(keys) ==
  IF Len(keys) = 0 THEN <<>> ELSE <<MultiMd5Key(Head(keys))>> \o MapMd5(Tail(keys))

\* the keys DeleteMultiple hands to deleteMultiple
DeleteMultipleKeys(cfg, keys) == IF cfg.Md5Check THEN keys \o MapMd5(keys) ELSE keys


(***************************************************************************)
(* Inputs                                                                  *)
(***************************************************************************)
EuDomain == <<"s","3","-","e","u","-","w","e","s","t","-","1",".","a","m","a","z","o","n","a","w","s",".","c","o","m">>

CustomDomain == <<"m","i","n","i","o",".","l","o","c","a","l">>

Region1 == <<"a","p","-","s","o","u","t","h","-","1">>

Region2 == <<"e","u","-","w","e","s","t","-","2">>

\* the values AWS_REGION takes; Empty is "not set"
EnvValues == {Empty, Region1, Region2}

\* the domains handed to New
SpecDomains == {Empty, EuDomain, AccelerateDomain, CustomDomain}

\* the endpoints of the model
Accels == {NewAcceleratedS3, NewAcceleratedS3InRegion(Empty)}

Endpoints == {New(d) : d \in SpecDomains} \cup Accels

\* bucket names, without and with a period
NameBk == <<"b","k">>

NameDotted == <<"b",".","k">>

Names == {NameBk, NameDotted}

\* object paths: a plain key, a key with a version, two that url.Parse rejects,
PathA == <<"a">>

PathVersioned == <<"a","?","v","e","r","s","i","o","n","I","d","=","7">>

PathColon == <<":","a">>

PathPercent == <<"a","%">>

\* parses (scheme "a", opaque "%") although its sidecar path does not
PathOpaque == <<"a",":","%">>

Paths == {PathA, PathVersioned, PathColon, PathPercent, PathOpaque}

\* caller-made Configs for NewBucket
UserConfigs ==
  {[DefaultConfigValue EXCEPT !.Md5Check = FALSE, !.PathStyle = ps] : ps \in BOOLEAN}

\* what b.Do can come back with: a transport error or a response status
Statuses == {200, 204, 404, 500}

Responses ==
  {[neterr |-> TRUE, StatusCode |-> 0]}
    \cup {[neterr |-> FALSE, StatusCode |-> c] : c \in Statuses}

\* the most keys one DeleteMultiple call is given
MaxKeys == 2

KeyLists == UNION {[1..n -> {PathA, PathColon}] : n \in 1..MaxKeys}

(***************************************************************************)
(* State                                                                   *)
(*   env      the value of AWS_REGION                                      *)
(*   heap     the Config objects; a *Config is an index into it            *)
(*   buckets  the Buckets created so far                                   *)
(*   call     the operation in progress (pc > 0) or last finished (pc = 0) *)
(*   sent     the requests handed to Bucket.Do during the call, in order   *)
(*   store    which of the objects the call addresses ("primary", the     *)
(*            object at path; "sidecar", its checksum object) exist        *)
(*   ret      what the last finished call returned                         *)
(***************************************************************************)
Idle == [op |-> "none", pc |-> 0, first |-> <<>>]

NoRet == [kind |-> "none", err |-> "", code |-> 0]

NilRet == [kind |-> "nil", err |-> "", code |-> 0]

NoReq == [Method |-> "", URL |-> [err |-> TRUE], Header |-> NilHeader]

\* one Bucket made by one of the three constructors: <<heap, buckets>>
InitialBuckets ==
  {<<<<DefaultConfigValue>>, <<S3Bucket(New(d), n)>>>> : d \in SpecDomains, n \in Names}
    \cup {<<BucketWithDefaultConfig(a, n, <<DefaultConfigValue>>)[1],
            <<BucketWithDefaultConfig(a, n, <<DefaultConfigValue>>)[2]>>>> :
            a \in Accels, n \in Names}
    \cup {<<<<DefaultConfigValue, c>>, <<NewBucket(s, n, 2)>>>> :
            s \in Endpoints, n \in Names, c \in UserConfigs}

Init ==
  /\ env \in EnvValues
  /\ \E hb \in InitialBuckets : heap = hb[1] /\ buckets = hb[2]
  /\ call = Idle
  /\ sent = <<>>
  /\ store = {}
  /\ ret = NoRet

(***************************************************************************)
(* Bucket.Delete, statement by statement                                   *)
(***************************************************************************)
B == buckets[call.b]

Cfg == heap[B.Config]

Running(op) == call.op = op /\ call.pc > 0

\* os.Setenv("AWS_REGION", v), at any time
Setenv(v) ==
  /\ v # env
  /\ env' = v
  /\ UNCHANGED <<heap, buckets, call, sent, store, ret>>

\* b.Delete(path) is called, while the objects in exists are in the store
DeleteCall(i, path, exists) ==
  /\ call.pc = 0
  /\ call' = [op |-> "Delete", b |-> i, path |-> path, stage |-> "primary",
              key |-> path, pc |-> 1, req |-> NoReq, log |-> <<>>,
              getenv |-> <<>>, first |-> call.first,
              missing |-> "primary" \notin exists]
  /\ sent' = <<>>
  /\ ret' = NoRet
  /\ store' = exists
  /\ UNCHANGED <<env, heap, buckets>>

\* b.delete returned e (lines 130-141 of Delete)
Finish(c, e) ==
  IF c.stage = "primary" /\ e.kind = "nil" /\ Cfg.Md5Check
  THEN /\ call' = [c EXCEPT !.stage = "sidecar", !.key = DeleteMd5Path(c.path),
                            !.pc = 1, !.req = NoReq]
       /\ ret' = ret
  ELSE /\ call' = [c EXCEPT !.pc = 0]
       /\ ret' = e

\* the next statement of b.delete, or its final return nil
Advance(c) ==
  IF c.pc = Len(deleteBody)
  THEN Finish(c, NilRet)
  ELSE /\ call' = [c EXCEPT !.pc = @ + 1]
       /\ ret' = ret

\* u, err := b.url(path); the http.Request is built
delete_url ==
  /\ Running("Delete")
  /\ deleteBody[call.pc] = "url"
  /\ LET u == url(B, Cfg, call.key)
         c == [call EXCEPT !.log = Append(@, <<"url", call.stage>>)]
     IN  IF u.err
         THEN Finish(c, [kind |-> "err", err |-> "parse", code |-> 0])
         ELSE Advance([c EXCEPT !.req = [Method |-> "DELETE", URL |-> u,
                                         Header |-> NilHeader]])
  /\ UNCHANGED <<env, heap, buckets, sent, store>>

\* b.Sign(&r)
delete_Sign ==
  /\ Running("Delete")
  /\ deleteBody[call.pc] = "Sign"
  /\ LET r == Sign(B, call.req, env)
         c == [call EXCEPT !.log = Append(@, <<"Sign", call.stage>>),
                           !.getenv = Append(@, env)]
     IN  IF r.panic
         THEN /\ call' = [c EXCEPT !.pc = 0]
              /\ ret' = [kind |-> "panic", err |-> "", code |-> 0]
         ELSE Advance([c EXCEPT !.req = r.req])
  /\ UNCHANGED <<env, heap, buckets, sent, store>>

\* resp, err := b.Do(&r) and the status check
delete_Do(resp) ==
  /\ Running("Delete")
  /\ deleteBody[call.pc] = "Do"
  /\ sent' = Append(sent, [req |-> call.req, resp |-> resp, stage |-> call.stage])
  /\ store' = IF ~resp.neterr /\ resp.StatusCode = StatusNoContent
              THEN store \ {call.stage}
              ELSE store
  /\ LET c == [call EXCEPT !.log = Append(@, <<"Do", call.stage>>),
                           !.first = IF @ = <<>>
                                     THEN <<[Host |-> call.req.URL.Host,
                                             Authorization |->
                                               call.req.Header.Authorization]>>
                                     ELSE @]
     IN  IF deleteResult(resp).kind = "nil"
         THEN Advance(c)
         ELSE Finish(c, deleteResult(resp))
  /\ UNCHANGED <<env, heap, buckets>>

\* b.DeleteMultiple(quiet, keys...) up to the call of deleteMultiple, which
\* is handed the key list recorded in call.passed
DeleteMultiple(i, quiet, keys) ==
  /\ call.pc = 0
  /\ call' = [op |-> "DeleteMultiple", b |-> i, quiet |-> quiet, keys |-> keys,
              passed |-> DeleteMultipleKeys(heap[buckets[i].Config], keys),
              pc |-> 0, first |-> call.first]
  /\ sent' = <<>>
  /\ ret' = NoRet
  /\ UNCHANGED <<env, heap, buckets, store>>

Next ==
  \/ \E v \in EnvValues : Setenv(v)
  \/ \E i \in DOMAIN buckets, p \in Paths, x \in SUBSET {"primary", "sidecar"} :
       DeleteCall(i, p, x)
  \/ delete_url
  \/ delete_Sign
  \/ \E resp \in Responses : delete_Do(resp)
  \/ \E i \in DOMAIN buckets, k \in KeyLists : DeleteMultiple(i, FALSE, k)

Spec == Init /\ [][Next]_vars


(***************************************************************************)
(* Properties of Bucket.Delete (specification Spec)                        *)
(***************************************************************************)
EuWest1 == <<"e","u","-","w","e","s","t","-","1">>

\* the region an endpoint has whatever AWS_REGION holds, as <<region>>;
\* <<>> for the endpoints whose region is the override
FixedRegion(s) ==
  IF s.kind = "S3Accelerated" THEN <<s.region>>
  ELSE IF s.domain = DefaultDomain THEN <<UsEast1>>
  ELSE IF s.domain = EuDomain THEN <<EuWest1>>
  ELSE <<>>

\* the region cannot be determined: not from the domain, and no override
Undeterminable(s, getenv) == FixedRegion(s) = <<>> /\ getenv = Empty

DeleteDone == call.op = "Delete" /\ call.pc = 0

Ok(i) == ~sent[i].resp.neterr /\ sent[i].resp.StatusCode = 204

\* C1 as stated: whenever a Delete run signs a request while the region is
\* undeterminable, the run ends in an error result with no request sent.
C1_Orig_ErrorResult ==
  call.op = "Delete" =>
    \A k \in DOMAIN call.getenv :
      Undeterminable(B.S3, call.getenv[k]) => ret.kind = "err" /\ Len(sent) = 0

\* C1 amended: whenever a Delete run signs a request while the region is
\* undeterminable, the run ends there in a panic (no error value is
\* returned), the request being signed is never handed to Do, nothing is
\* sent afterwards (so nothing at all when it is the first request), and no
\* request is ever sent unsigned; a panic has no other cause.
C1_UndeterminableRegionPanics ==
  call.op = "Delete" =>
    /\ \A k \in DOMAIN call.getenv :
         Undeterminable(B.S3, call.getenv[k]) =>
           /\ ret.kind = "panic"
           /\ call.pc = 0
           /\ k = Len(call.getenv)
           /\ Len(sent) = k - 1
    /\ \A i \in DOMAIN sent : Signed(sent[i].req)
    /\ ret.kind = "panic" =>
         /\ Len(call.getenv) > 0
         /\ Undeterminable(B.S3, call.getenv[Len(call.getenv)])

C1_Witness ==
  /\ DeleteDone
  /\ ret.kind = "panic"
  /\ Len(sent) = 0
  /\ B.S3.kind = "S3"
  /\ B.S3.domain = CustomDomain
  /\ call.getenv = <<Empty>>

\* C2: in every run of Bucket.delete the Sign of a request comes right
\* before the Do of that request, and every request handed to Do carries
\* the signature and the User-Agent that Sign sets.
C2_SignBeforeDo ==
  call.op = "Delete" =>
    /\ \A i \in DOMAIN call.log :
         call.log[i][1] = "Do" =>
           i > 1 /\ call.log[i - 1] = <<"Sign", call.log[i][2]>>
    /\ \A i \in DOMAIN sent :
         Signed(sent[i].req) /\ sent[i].req.Header.UserAgent = UserAgent

C2_Witness ==
  /\ DeleteDone
  /\ Len(sent) = 2
  /\ Signed(sent[1].req)
  /\ Signed(sent[2].req)
  /\ call.log = <<<<"url", "primary">>, <<"Sign", "primary">>, <<"Do", "primary">>,
                  <<"url", "sidecar">>, <<"Sign", "sidecar">>, <<"Do", "sidecar">>>>

C7_Orig_SameRegionEveryRequest ==
  call.op = "Delete" =>
    \A i \in DOMAIN sent :
      /\ sent[i].req.URL.Host = call.first[1].Host
      /\ sent[i].req.Header.Authorization = call.first[1].Authorization

\* C7 amended: the host is the same at every request of a Bucket; the
\* signing region is the same at every request when the endpoint is an
\* S3Accelerated or an S3 whose domain is s3.amazonaws.com,
\* s3-external-1.amazonaws.com or matches the region pattern (other than
\* s3-accelerate.amazonaws.com); for any other S3 endpoint the region of a
\* request is the value AWS_REGION held when that request was signed.
C7_HostFixedRegionFollowsEnv ==
  call.op = "Delete" =>
    \A i \in DOMAIN sent :
      /\ sent[i].req.URL.Host = call.first[1].Host
      /\ FixedRegion(B.S3) # <<>> =>
           /\ sent[i].req.Header.Authorization = FixedRegion(B.S3)
           /\ sent[i].req.Header.Authorization = call.first[1].Authorization
      /\ FixedRegion(B.S3) = <<>> =>
           sent[i].req.Header.Authorization = <<call.getenv[i]>>

C7_Witness ==
  /\ DeleteDone
  /\ Len(sent) = 2
  /\ B.S3.kind = "S3"
  /\ B.S3.domain = EuDomain
  /\ call.getenv = <<Region1, Region2>>
  /\ sent[1].req.Header.Authorization = <<EuWest1>>
  /\ sent[2].req.Header.Authorization = <<EuWest1>>

\* the paths url.Parse rejects, and those whose sidecar path it rejects
Unparsable == {PathColon, PathPercent}

SidecarUnparsable == {PathPercent, PathOpaque}

\* C9 as stated: a finished Delete has issued the primary DELETE first, the
\* sidecar DELETE iff Md5Check is on and the primary returned 204, at most
\* two requests; it returned nil iff every request returned 204, otherwise
\* the error of the first failing request, the last request issued.
C9_Orig_DeleteProtocol ==
  (DeleteDone /\ ret.kind # "panic") =>
    /\ Len(sent) >= 1
    /\ sent[1].stage = "primary"
    /\ Len(sent) <= 2
    /\ (Len(sent) = 2) <=> (Cfg.Md5Check /\ Ok(1))
    /\ (ret.kind = "nil") <=> (\A i \in DOMAIN sent : Ok(i))
    /\ ret.kind # "nil" =>
         /\ ~Ok(Len(sent))
         /\ \A i \in 1..(Len(sent) - 1) : Ok(i)
         /\ ret.err \in {"resp", "transport"}

\* C9 amended: a finished Delete has issued at most two requests, the
\* primary DELETE first and the sidecar DELETE second. The primary is issued
\* iff its URL could be built and its signing did not panic; the sidecar is
\* issued iff Md5Check is on, the primary returned 204, the sidecar URL
\* could be built and its signing did not panic. Delete returns nil iff it
\* issued the primary, and the sidecar when Md5Check is on, and each
\* returned 204; otherwise it returns the first error, the URL error or the
\* error of the failing request, and issues nothing after it; a panic in
\* Sign ends the run with nothing returned and nothing sent afterwards.
C9_DeleteProtocol ==
  DeleteDone =>
    LET n == Len(sent)
        due == IF Cfg.Md5Check THEN 2 ELSE 1
    IN  /\ n <= 2
        /\ \A i \in DOMAIN sent : sent[i].stage = (IF i = 1 THEN "primary" ELSE "sidecar")
        /\ \A i \in 1..(n - 1) : Ok(i)
        /\ n = 2 => Cfg.Md5Check
        /\ (ret.kind = "nil") <=> (n = due /\ \A i \in DOMAIN sent : Ok(i))
        /\ (ret.kind = "err" /\ ret.err = "parse") <=>
             \/ n = 0 /\ call.path \in Unparsable
             \/ n = 1 /\ Ok(1) /\ Cfg.Md5Check /\ call.path \in SidecarUnparsable
        /\ (ret.kind = "err" /\ ret.err = "transport") <=> (n >= 1 /\ sent[n].resp.neterr)
        /\ (ret.kind = "err" /\ ret.err = "resp") <=>
             (n >= 1 /\ ~sent[n].resp.neterr /\ ~Ok(n)
                /\ ret.code = sent[n].resp.StatusCode)
        /\ (ret.kind = "panic") <=>
             (n = Len(call.getenv) - 1 /\ (n = 0 \/ Ok(n))
                /\ call.path \notin Unparsable
                /\ ~(n = 1 /\ call.path \in SidecarUnparsable))
        /\ ret.kind \in {"nil", "err", "panic"}

C9_Witness ==
  /\ DeleteDone
  /\ Cfg.Md5Check
  /\ Len(sent) = 2
  /\ Ok(1)
  /\ ~sent[2].resp.neterr
  /\ sent[2].resp.StatusCode = 404
  /\ ret = [kind |-> "err", err |-> "resp", code |-> 404]

\* the key the Config documentation gives the checksum of an object:
\* <bucket>/.md5/<object_key>.md5
DocumentedSidecar(key) == <<"/",".","m","d","5","/">> \o key \o <<".","m","d","5">>

\* C5: with Md5Check on, the sidecar key DeleteMultiple adds for a key is the
\* one Delete targets for it, and both are the documented .md5 key.
C5_SidecarKeyUniform ==
  /\ (call.op = "Delete" /\ call.stage = "sidecar") =>
       /\ call.key = DocumentedSidecar(call.path)
       /\ call.key = DeleteMd5Path(call.path)
  /\ (call.op = "DeleteMultiple" /\ Cfg.Md5Check) =>
       /\ Len(call.passed) = 2 * Len(call.keys)
       /\ \A i \in DOMAIN call.keys :
            /\ call.passed[i] = call.keys[i]
            /\ call.passed[Len(call.keys) + i] = DeleteMd5Path(call.keys[i])
            /\ call.passed[Len(call.keys) + i] = DocumentedSidecar(call.keys[i])


(***************************************************************************)
(* S3.Region as a function of the domain and AWS_REGION                    *)
(* (specification SpecRegion)                                              *)
(***************************************************************************)
EuDotDomain == <<"s","3",".","e","u","-","w","e","s","t","-","1",".","a","m","a","z","o","n","a","w","s",".","c","o","m">>

CnBucketDomain == <<"b",".","s","3",".","c","n","-","n","1",".","a","m","a","z","o","n","a","w","s",".","c","o","m",".","c","n">>

DualstackDomain == <<"s","3",".","d","u","a","l","s","t","a","c","k",".","u","s","-","w","e","s","t","-","2",".","a","m","a","z","o","n","a","w","s",".","c","o","m">>

GluedDomain == <<"s","3","-","x","y","a","m","a","z","o","n","a","w","s",".","c","o","m">>

ChinaDomain == <<"s","3",".","a","m","a","z","o","n","a","w","s",".","c","o","m",".","c","n">>

CnNorth1 == <<"c","n","-","n","1">>

\* the domains S3.Region is applied to
RegionDomains ==
  {Empty, ExternalDomain, AccelerateDomain, EuDomain, EuDotDomain, CnBucketDomain,
   DualstackDomain, GluedDomain, ChinaDomain, CustomDomain}

\* what s3[-.]<region>.amazonaws.com finds in a domain, read off by hand:
\* <<region>>, or <<>> when the domain does not match
Embedded(d) ==
  CASE d = EuDomain -> <<EuWest1>>
    [] d = EuDotDomain -> <<EuWest1>>
    [] d = CnBucketDomain -> <<CnNorth1>>
    [] d = GluedDomain -> <<<<"x">>>>
    [] d = AccelerateDomain -> <<<<"a","c","c","e","l","e","r","a","t","e">>>>
    [] d = ExternalDomain -> <<<<"e","x","t","e","r","n","a","l","-","1">>>>
    [] OTHER -> <<>>

InitRegion ==
  /\ env \in EnvValues
  /\ heap = <<DefaultConfigValue>>
  /\ \E d \in RegionDomains : buckets = <<S3Bucket(New(d), NameBk)>>
  /\ call = Idle
  /\ sent = <<>>
  /\ store = {}
  /\ ret = NoRet

\* b.S3.Region() is called
CallRegion(i) ==
  /\ call' = [op |-> "Region", b |-> i, getenv |-> env, pc |-> 0, first |-> <<>>]
  /\ ret' = [kind |-> IF Region(buckets[i].S3, env) = Panic THEN "panic" ELSE "region",
             err |-> "", code |-> 0, val |-> Region(buckets[i].S3, env)]
  /\ UNCHANGED <<env, heap, buckets, sent, store>>

NextRegion ==
  \/ \E v \in EnvValues : Setenv(v)
  \/ \E i \in DOMAIN buckets : CallRegion(i)

SpecRegion == InitRegion /\ [][NextRegion]_vars

\* C4 as stated: S3.Region returns us-east-1 for s3.amazonaws.com and
\* s3-external-1.amazonaws.com, the region embedded in the domain when the
\* domain matches the pattern, and the (set) override otherwise.
C4_Orig_OverrideOnlyWithoutMatch ==
  call.op = "Region" =>
    LET d == B.S3.domain
    IN  /\ d \in {DefaultDomain, ExternalDomain} => ret.val = UsEast1
        /\ (d \notin {DefaultDomain, ExternalDomain} /\ Embedded(d) # <<>>)
             => ret.val = Embedded(d)[1]
        /\ (d \notin {DefaultDomain, ExternalDomain} /\ Embedded(d) = <<>>
              /\ call.getenv # Empty)
             => ret.val = call.getenv

\* C4 amended: S3.Region returns us-east-1 for s3.amazonaws.com and
\* s3-external-1.amazonaws.com; for s3-accelerate.amazonaws.com, although it
\* matches the pattern, and for every domain that does not match the
\* pattern, it returns the override, panicking when the override is empty;
\* for every other domain it returns the region embedded in the domain,
\* whatever the override holds.
C4_RegionInference ==
  call.op = "Region" =>
    LET d == B.S3.domain
        useast == d \in {DefaultDomain, ExternalDomain}
        override == ~useast /\ (d = AccelerateDomain \/ Embedded(d) = <<>>)
    IN  /\ useast => ret.val = UsEast1
        /\ override => ret.val = (IF call.getenv = Empty THEN Panic ELSE call.getenv)
        /\ (~useast /\ ~override) => ret.val = Embedded(d)[1]
        /\ (ret.kind = "panic") <=> (ret.val = Panic)

C4_Witness ==
  /\ call.op = "Region"
  /\ B.S3.domain = CnBucketDomain
  /\ call.getenv = Region1
  /\ ret.val = CnNorth1


(***************************************************************************)
(* Bucket.url as a function of the Bucket and the path                     *)
(* (specification SpecUrl)                                                 *)
(***************************************************************************)
http == <<"h","t","t","p">>

\* the part of a path before any "?"
BaseSlashA == <<"/","a">>

BaseASlash == <<"a","/">>

BaseDA == <<"d","/","a">>

BaseDSlashSlashA == <<"d","/","/","a">>

BaseDotDotX == <<".",".","/","x">>

UrlBases ==
  {PathA, BaseSlashA, BaseASlash, BaseDA, BaseDSlashSlashA, BaseDotDotX,
   PathColon, PathPercent}

\* what follows it
SuffixVersion == <<"?","v","e","r","s","i","o","n","I","d","=","7">>

SuffixEmptyVersion == <<"?","v","e","r","s","i","o","n","I","d","=">>

SuffixOther == <<"?","x","=","1">>

SuffixOtherVersion == <<"?","x","=","1","&","v","e","r","s","i","o","n","I","d","=","7">>

UrlSuffixes == {Empty, SuffixVersion, SuffixEmptyVersion, SuffixOther, SuffixOtherVersion}

\* the versionId a suffix carries, read off by hand
SuffixVersionId(x) == IF x \in {SuffixVersion, SuffixOtherVersion} THEN <<"7">> ELSE Empty

\* the bases url.Parse rejects
BadBases == {PathColon, PathPercent}

\* the bases path.Clean leaves as they are behind a "/"
CleanBases == {PathA, BaseDA}

UrlConfigs ==
  {[DefaultConfigValue EXCEPT !.PathStyle = ps, !.Scheme = sc] :
     ps \in BOOLEAN, sc \in {https, http}}

UrlEndpoints == {New(Empty), New(CustomDomain), NewAcceleratedS3}

InitUrl ==
  /\ env = Empty
  /\ \E c \in UrlConfigs, e \in UrlEndpoints, n \in {NameBk, NameDotted} :
       /\ heap = <<DefaultConfigValue, c>>
       /\ buckets = <<NewBucket(e, n, 2)>>
  /\ call = Idle
  /\ sent = <<>>
  /\ store = {}
  /\ ret = NoRet

\* b.url(base + suffix) is called
CallUrl(i, base, suffix) ==
  /\ call' = [op |-> "url", b |-> i, base |-> base, suffix |-> suffix,
              pc |-> 0, first |-> <<>>]
  /\ ret' = [kind |-> "url", err |-> "", code |-> 0,
             val |-> url(buckets[i], heap[buckets[i].Config], base \o suffix)]
  /\ UNCHANGED <<env, heap, buckets, sent, store>>

NextUrl == \E i \in DOMAIN buckets, base \in UrlBases, x \in UrlSuffixes : CallUrl(i, base, x)

SpecUrl == InitUrl /\ [][NextUrl]_vars

\* the path the URL is built from: the versionId query is cut off
UrlPathPart == IF SuffixVersionId(call.suffix) # Empty THEN call.base ELSE call.base \o call.suffix

\* the addressing style the rule gives the Bucket
WantPathStyle == B.Name = NameDotted \/ Cfg.PathStyle

\* the query the rule gives the path
WantQuery ==
  IF SuffixVersionId(call.suffix) = Empty THEN Empty
  ELSE versionParam \o <<"=">> \o SuffixVersionId(call.suffix)

\* C10 as stated: for a path that parses, the URL is path-style (host
\* Domain(), path /<bucket>/<path>) exactly when the name holds a period or
\* PathStyle is set, else virtual-hosted (host <bucket>.<domain>, path
\* /<path>); the scheme is Config.Scheme, the query the non-empty versionId.
C10_Orig_LiteralPath ==
  (call.op = "url" /\ call.base \notin BadBases) =>
    /\ ~ret.val.err
    /\ ret.val.Scheme = Cfg.Scheme
    /\ ret.val.RawQuery = WantQuery
    /\ WantPathStyle =>
         /\ ret.val.Host = Domain(B.S3)
         /\ ret.val.Path = <<"/">> \o B.Name \o <<"/">> \o UrlPathPart
    /\ ~WantPathStyle =>
         /\ ret.val.Host = B.Name \o <<".">> \o Domain(B.S3)
         /\ ret.val.Path = <<"/">> \o UrlPathPart

\* C10 amended: as stated, with the path of the URL being
\* path.Clean("/<bucket>/<path>"), respectively path.Clean("/<path>"):
\* empty, "." and ".." elements and a trailing slash are removed, so the
\* path is literally /<bucket>/<path> only for a path already clean; and for
\* a path url.Parse rejects url returns the error and no URL.
C10_CleanedPath ==
  call.op = "url" =>
    /\ ret.val.err <=> call.base \in BadBases
    /\ ~ret.val.err =>
         /\ ret.val.Scheme = Cfg.Scheme
         /\ ret.val.RawQuery = WantQuery
         /\ WantPathStyle =>
              /\ ret.val.Host = Domain(B.S3)
              /\ ret.val.Path = Clean(<<"/">> \o B.Name \o <<"/">> \o UrlPathPart)
              /\ call.base \in CleanBases =>
                   ret.val.Path = <<"/">> \o B.Name \o <<"/">> \o UrlPathPart
              /\ (call.base = BaseASlash /\ call.suffix = Empty) =>
                   ret.val.Path = <<"/">> \o B.Name \o <<"/">> \o PathA
              /\ (call.base = BaseDotDotX /\ call.suffix = Empty) =>
                   ret.val.Path = <<"/", "x">>
         /\ ~WantPathStyle =>
              /\ ret.val.Host = B.Name \o <<".">> \o Domain(B.S3)
              /\ ret.val.Path = Clean(<<"/">> \o UrlPathPart)
              /\ call.base \in CleanBases => ret.val.Path = <<"/">> \o UrlPathPart
              /\ (call.base \in {BaseSlashA, BaseASlash} /\ call.suffix = Empty) =>
                   ret.val.Path = <<"/">> \o PathA

C10_Witness ==
  /\ call.op = "url"
  /\ B.Name = NameBk
  /\ Cfg.PathStyle
  /\ call.base = BaseASlash
  /\ call.suffix = SuffixOtherVersion
  /\ ret.val.Path = <<"/","b","k","/","a">>
  /\ ret.val.RawQuery = <<"v","e","r","s","i","o","n","I","d","=","7">>


(***************************************************************************)
(* Buckets and the Config objects they point to                            *)
(* (specification SpecConfig)                                              *)
(*   call.supplied[i]  the Config values Bucket i was created with         *)
(*   call.via          the Buckets whose Config a change was made through  *)
(***************************************************************************)
\* the most Buckets created
MaxBuckets == 2

\* the Config a caller makes for NewBucket
CallerConfigValue == [DefaultConfigValue EXCEPT !.Concurrency = 4, !.Md5Check = FALSE]

InitConfig ==
  /\ env = Empty
  /\ heap = <<DefaultConfigValue>>
  /\ buckets = <<>>
  /\ call = [op |-> "none", pc |-> 0, first |-> <<>>, supplied |-> <<>>, via |-> {}]
  /\ sent = <<>>
  /\ store = {}
  /\ ret = NoRet

\* s.Bucket(name)
CreateS3Bucket(s, name) ==
  /\ Len(buckets) < MaxBuckets
  /\ buckets' = Append(buckets, S3Bucket(s, name))
  /\ call' = [call EXCEPT !.op = "Bucket",
                          !.supplied = Append(@, heap[DefaultConfig])]
  /\ UNCHANGED <<env, heap, sent, store, ret>>

\* a.BucketWithDefaultConfig(name)
CreateAccelerated(a, name) ==
  /\ Len(buckets) < MaxBuckets
  /\ heap' = BucketWithDefaultConfig(a, name, heap)[1]
  /\ buckets' = Append(buckets, BucketWithDefaultConfig(a, name, heap)[2])
  /\ call' = [call EXCEPT !.op = "BucketWithDefaultConfig",
                          !.supplied = Append(@, AcceleratedConfigValue)]
  /\ UNCHANGED <<env, sent, store, ret>>

\* NewBucket(s3, name, &Config{...}) with a Config the caller has just made
CreateNewBucket(s3, name, c) ==
  /\ Len(buckets) < MaxBuckets
  /\ heap' = Append(heap, c)
  /\ buckets' = Append(buckets, NewBucket(s3, name, Len(heap) + 1))
  /\ call' = [call EXCEPT !.op = "NewBucket", !.supplied = Append(@, c)]
  /\ UNCHANGED <<env, sent, store, ret>>

\* b.Config.Md5Check = v
SetMd5Check(i, v) ==
  /\ heap[buckets[i].Config].Md5Check # v
  /\ heap' = [heap EXCEPT ![buckets[i].Config].Md5Check = v]
  /\ call' = [call EXCEPT !.op = "SetConfig", !.via = @ \cup {i}]
  /\ UNCHANGED <<env, buckets, sent, store, ret>>

\* b.Config.Concurrency = v
SetConcurrency(i, v) ==
  /\ heap[buckets[i].Config].Concurrency # v
  /\ heap' = [heap EXCEPT ![buckets[i].Config].Concurrency = v]
  /\ call' = [call EXCEPT !.op = "SetConfig", !.via = @ \cup {i}]
  /\ UNCHANGED <<env, buckets, sent, store, ret>>

\* b.Config.Scheme = v
SetScheme(i, v) ==
  /\ heap[buckets[i].Config].Scheme # v
  /\ heap' = [heap EXCEPT ![buckets[i].Config].Scheme = v]
  /\ call' = [call EXCEPT !.op = "SetConfig", !.via = @ \cup {i}]
  /\ UNCHANGED <<env, buckets, sent, store, ret>>

NextConfig ==
  \/ CreateS3Bucket(New(Empty), NameBk)
  \/ CreateAccelerated(NewAcceleratedS3, NameBk)
  \/ CreateNewBucket(New(CustomDomain), NameBk, CallerConfigValue)
  \/ \E i \in DOMAIN buckets, v \in BOOLEAN : SetMd5Check(i, v)
  \/ \E i \in DOMAIN buckets, v \in {1, 10} : SetConcurrency(i, v)
  \/ \E i \in DOMAIN buckets, v \in {https, http} : SetScheme(i, v)

SpecConfig == InitConfig /\ [][NextConfig]_vars

\* C8: every Bucket through whose Config no change was made still sees the
\* concurrency, part size, max attempts, checksum flag and scheme it was
\* created with, whatever was created or changed through other Buckets.
C8_ConfigUnaffectedByOthers ==
  \A i \in DOMAIN buckets :
    i \notin call.via =>
      LET c == heap[buckets[i].Config]
          c0 == call.supplied[i]
      IN  /\ c.Concurrency = c0.Concurrency
          /\ c.PartSize = c0.PartSize
          /\ c.NTry = c0.NTry
          /\ c.Md5Check = c0.Md5Check
          /\ c.Scheme = c0.Scheme


(***************************************************************************)
(* Stream creation: Bucket.GetReader and Bucket.PutWriter                  *)
(* (specification SpecStream)                                              *)
(***************************************************************************)
\* the Transfer Configuration is valid:
\* concurrency >= 1, part size > 0, max attempts >= 1
ValidConfig(cfg) == cfg.Concurrency >= 1 /\ cfg.PartSize > 0 /\ cfg.NTry >= 1

ErrRet(e) == [kind |-> "err", err |-> e, code |-> 0]

StreamRet == [kind |-> "stream", err |-> "", code |-> 0]

\* newGetter(u, b): rejects an invalid Config; otherwise signs and sends the
\* request that discovers the object, answered by resp. [ret, sent]
newGetter(u, b, cfg, getenv, resp) ==
  LET r == Sign(b, [Method |-> "GET", URL |-> u, Header |-> NilHeader], getenv)
  IN  IF ~ValidConfig(cfg) THEN [ret |-> ErrRet("config"), sent |-> <<>>]
      ELSE IF r.panic
      THEN [ret |-> [kind |-> "panic", err |-> "", code |-> 0], sent |-> <<>>]
      ELSE [ret |-> IF resp.neterr THEN ErrRet("transport")
                    ELSE IF resp.StatusCode = 404 THEN ErrRet("not found")
                    ELSE IF resp.StatusCode # 200 THEN ErrRet("resp")
                    ELSE StreamRet,
            sent |-> <<[req |-> r.req, resp |-> resp, stage |-> "get"]>>]

\* newPutter(u, h, b): rejects an invalid Config; the multipart upload is
\* initiated by the first write, not here. [ret, sent]
newPutter(u, b, cfg) ==
  IF ~ValidConfig(cfg) THEN [ret |-> ErrRet("config"), sent |-> <<>>]
  ELSE [ret |-> StreamRet, sent |-> <<>>]

\* GetReader handing every path, the empty one too, to newGetter
GetReader_NoEmptyCheck(b, cfg, path, getenv, resp) ==
  IF url(b, cfg, path).err THEN [ret |-> ErrRet("parse"), sent |-> <<>>]
  ELSE newGetter(url(b, cfg, path), b, cfg, getenv, resp)

\* (b *Bucket) GetReader(path): [ret, sent]
GetReader(b, cfg, path, getenv, resp) ==
  IF path = Empty THEN [ret |-> ErrRet("empty path"), sent |-> <<>>]
  ELSE IF url(b, cfg, path).err THEN [ret |-> ErrRet("parse"), sent |-> <<>>]
  ELSE newGetter(url(b, cfg, path), b, cfg, getenv, resp)

\* (b *Bucket) PutWriter(path, h): [ret, sent]
PutWriter(b, cfg, path) ==
  IF url(b, cfg, path).err THEN [ret |-> ErrRet("parse"), sent |-> <<>>]
  ELSE newPutter(url(b, cfg, path), b, cfg)

\* the Configs handed to NewBucket: every combination of a bad and a good
\* value of the three constrained fields
StreamConfigs ==
  {[DefaultConfigValue EXCEPT !.Concurrency = c, !.PartSize = ps, !.NTry = n] :
     c \in {-1, 0, 1}, ps \in {-1, 0, 1}, n \in {0, 1}}

StreamPaths == {Empty, PathA, PathColon}

InitStream ==
  /\ env = Empty
  /\ \E c \in StreamConfigs, e \in {New(Empty), NewAcceleratedS3} :
       /\ heap = <<DefaultConfigValue, c>>
       /\ buckets = <<NewBucket(e, NameBk, 2)>>
  /\ call = Idle
  /\ sent = <<>>
  /\ store = {}
  /\ ret = NoRet

\* b.GetReader(path) is called
CallGetReader(i, path, resp) ==
  /\ call' = [op |-> "GetReader", b |-> i, path |-> path, pc |-> 0, first |-> <<>>]
  /\ ret' = GetReader(buckets[i], heap[buckets[i].Config], path, env, resp).ret
  /\ sent' = GetReader(buckets[i], heap[buckets[i].Config], path, env, resp).sent
  /\ UNCHANGED <<env, heap, buckets, store>>

\* b.PutWriter(path, h) is called
CallPutWriter(i, path) ==
  /\ call' = [op |-> "PutWriter", b |-> i, path |-> path, pc |-> 0, first |-> <<>>]
  /\ ret' = PutWriter(buckets[i], heap[buckets[i].Config], path).ret
  /\ sent' = PutWriter(buckets[i], heap[buckets[i].Config], path).sent
  /\ UNCHANGED <<env, heap, buckets, store>>

NextStream ==
  \/ \E i \in DOMAIN buckets, p \in StreamPaths, resp \in Responses :
       CallGetReader(i, p, resp)
  \/ \E i \in DOMAIN buckets, p \in StreamPaths : CallPutWriter(i, p)

SpecStream == InitStream /\ [][NextStream]_vars

StreamCall == call.op \in {"GetReader", "PutWriter"}

\* concurrency < 1, part size <= 0 or max attempts < 1, spelled out
InvalidConfig(cfg) == cfg.Concurrency < 1 \/ cfg.PartSize <= 0 \/ cfg.NTry < 1

====
